---- MODULE Spec2Model ----
(***************************************************************************)
(* Model of src/app.py: the Dash callback update_dashboard and the helper  *)
(* process_album_data.  The page holds the contents of the upload          *)
(* component and the six outputs of the callback (five figures and the     *)
(* error message).  The callback reads nothing but its argument, so a      *)
(* behaviour follows one file: the one the user has picked to upload.      *)
(*                                                                         *)
(* Python values are tagged records, so that values of different Python    *)
(* types can be compared:                                                  *)
(*   None -> [t |-> "null"]        3     -> [t |-> "num", n |-> 3]         *)
(*   NaN  -> [t |-> "nan"]         "12"  -> [t |-> "str", s |-> <<"1","2">>]*)
(*   list -> [t |-> "list", xs |-> <<...>>]                                *)
(*   dict -> [t |-> "map", m |-> [key |-> value]]                          *)
(* A string value is the sequence of its characters, so that parsing it    *)
(* as a number is a computation.  A raised exception is the record         *)
(* [ok |-> FALSE, err |-> str(e)], a returned value [ok |-> TRUE, v |-> v].*)
(***************************************************************************)
EXTENDS Integers, Sequences, FiniteSets, TLC

VARIABLES file, contents, result, called

vars == <<file, contents, result, called>>

\* Longest collection of well-formed records (JSON array of objects) an upload
\* carries.
MaxLen == 3

\* Longest collection an upload carries when irregular records are among them.
MaxMixedLen == 2

\* Longest column of a column-oriented upload (JSON object of arrays).
MaxColLen == 2

(***************************************************************************)
(* Python values                                                           *)
(***************************************************************************)
None == [t |-> "null"]

NaN == [t |-> "nan"]

Num(n) == [t |-> "num", n |-> n]

Str(s) == [t |-> "str", s |-> s]

Arr(xs) == [t |-> "list", xs |-> xs]

Obj(m) == [t |-> "map", m |-> m]

Ok(v) == [ok |-> TRUE, v |-> v]

Raise(msg) == [ok |-> FALSE, err |-> msg]

IsScalar(v) == v.t \in {"null", "nan", "num", "str"}

\* pd.isna / Series.notna on one cell: None and NaN are both missing.
IsNa(v) == v.t \in {"null", "nan"}

PyType(v) ==
  CASE v.t = "null" -> "NoneType"
    [] v.t = "nan" -> "float"
    [] v.t = "num" -> "int"
    [] v.t = "str" -> "str"
    [] v.t = "list" -> "list"
    [] v.t = "map" -> "dict"

(***************************************************************************)
(* pd.to_numeric(column, errors='coerce'), one cell at a time.  Over the   *)
(* characters the model uses (digits, "-", "+", letters) a string is       *)
(* numeric exactly when it is an optional sign followed by digits.         *)
(***************************************************************************)
Digits == {"0", "1", "2", "3", "4", "5", "6", "7", "8", "9"}

DigitVal(c) ==
  CASE c = "0" -> 0 [] c = "1" -> 1 [] c = "2" -> 2 [] c = "3" -> 3
    [] c = "4" -> 4 [] c = "5" -> 5 [] c = "6" -> 6 [] c = "7" -> 7
    [] c = "8" -> 8 [] c = "9" -> 9

IsDigits(s) == Len(s) > 0 /\ \A i \in 1..Len(s) : s[i] \in Digits

RECURSIVE DecimalValue(_)
DecimalValue(s) ==
  IF Len(s) = 0 THEN 0
  ELSE 10 * DecimalValue(SubSeq(s, 1, Len(s) - 1)) + DigitVal(s[Len(s)])

ParseNumber(s) ==
  IF IsDigits(s) THEN Num(DecimalValue(s))
  ELSE IF Len(s) > 1 /\ s[1] = "-" /\ IsDigits(Tail(s))
    THEN Num(0 - DecimalValue(Tail(s)))
  ELSE IF Len(s) > 1 /\ s[1] = "+" /\ IsDigits(Tail(s))
    THEN Num(DecimalValue(Tail(s)))
  ELSE NaN

ToNumeric(v) ==
  CASE v.t = "num" -> v
    [] v.t = "str" -> ParseNumber(v.s)
    [] OTHER -> NaN

(***************************************************************************)
(* pd.DataFrame(data).  A frame is its set of column labels and its rows   *)
(* in order, each row a function from the column labels to cells.          *)
(***************************************************************************)
Frame(cols, rows) == [cols |-> cols, rows |-> rows]

EmptyFrame == Frame({}, <<>>)

Range(f) == {f[i] : i \in DOMAIN f}

\* Type inference on the columns of a new frame: a column whose cells are
\* numbers, NaN and None only, with at least one number or NaN, is a float
\* column, in which None is NaN.  Any other column keeps its objects.
InferColumns(cols, rows) ==
  LET IsFloat(c) ==
        /\ \A i \in 1..Len(rows) : rows[i][c].t \in {"null", "nan", "num"}
        /\ \E i \in 1..Len(rows) : rows[i][c].t \in {"nan", "num"}
  IN Frame(cols,
           [i \in 1..Len(rows) |->
              [c \in cols |->
                 IF IsFloat(c) /\ rows[i][c].t = "null" THEN NaN ELSE rows[i][c]]])

\* A list of dicts: the columns are the union of the keys, a key a record
\* lacks is NaN in its row.
FrameFromRecords(xs) ==
  LET cols == UNION {DOMAIN xs[i].m : i \in 1..Len(xs)}
  IN InferColumns(cols,
           [i \in 1..Len(xs) |->
              [c \in cols |-> IF c \in DOMAIN xs[i].m THEN xs[i].m[c] ELSE NaN]])

\* A dict of lists and scalars: the lists give the rows by position and must
\* agree in length, a scalar is broadcast to every row.
FrameFromColumns(m) ==
  LET lens == {Len(m[c].xs) : c \in {k \in DOMAIN m : m[k].t = "list"}}
  IN IF Cardinality(lens) > 1
       THEN Raise("All arrays must be of the same length")
       ELSE LET n == CHOOSE l \in lens : TRUE
            IN Ok(InferColumns(DOMAIN m,
                        [i \in 1..n |->
                           [c \in DOMAIN m |->
                              IF m[c].t = "list" THEN m[c].xs[i] ELSE m[c]]]))

DataFrame(data) ==
  CASE data.t = "null" -> Ok(EmptyFrame)
    [] data.t \in {"num", "str"} ->
         Raise("DataFrame constructor not properly called!")
    [] data.t = "list" /\ Len(data.xs) = 0 -> Ok(EmptyFrame)
    [] data.t = "list" /\ Len(data.xs) > 0 /\ data.xs[1].t = "map" ->
         IF \A i \in 1..Len(data.xs) : data.xs[i].t = "map"
           THEN Ok(FrameFromRecords(data.xs))
           ELSE LET bad == CHOOSE i \in 1..Len(data.xs) :
                             /\ data.xs[i].t # "map"
                             /\ \A j \in 1..(i - 1) : data.xs[j].t = "map"
                IN Raise("'" \o PyType(data.xs[bad])
                         \o "' object has no attribute 'keys'")
    [] data.t = "list" /\ Len(data.xs) > 0 /\ IsScalar(data.xs[1]) ->
         \* a sequence that does not start with a mapping is one column, 0
         Ok(InferColumns({"0"},
                         [i \in 1..Len(data.xs) |-> [c \in {"0"} |-> data.xs[i]]]))
    [] data.t = "map" /\ DOMAIN data.m = {} -> Ok(EmptyFrame)
    [] data.t = "map" /\ DOMAIN data.m # {}
         /\ (\A k \in DOMAIN data.m : IsScalar(data.m[k])) ->
         Raise("If using all scalar values, you must pass an index")
    [] data.t = "map" /\ (\E k \in DOMAIN data.m : data.m[k].t = "list") ->
         FrameFromColumns(data.m)

Column(df, c) == [i \in 1..Len(df.rows) |-> df.rows[i][c]]

\* df['US_peak_chart_post'] raises KeyError when no record carries the field.
process_album_data(album_data) ==
  LET made == DataFrame(album_data)
  IN IF ~made.ok THEN made
     ELSE IF "US_peak_chart_post" \notin made.v.cols
       THEN Raise("'US_peak_chart_post'")
     ELSE Ok(Frame(made.v.cols,
                   [i \in 1..Len(made.v.rows) |->
                      [made.v.rows[i] EXCEPT
                         !["US_peak_chart_post"] = ToNumeric(@)]]))

(***************************************************************************)
(* Series helpers                                                          *)
(***************************************************************************)
\* The distinct values of a sequence, in order of first appearance.
RECURSIVE Unique(_)
Unique(s) ==
  IF Len(s) = 0 THEN <<>>
  ELSE LET init == Unique(SubSeq(s, 1, Len(s) - 1))
       IN IF s[Len(s)] \in Range(init) THEN init ELSE Append(init, s[Len(s)])

Occurrences(s, v) == Cardinality({i \in 1..Len(s) : s[i] = v})

\* Entries (label, count) sorted by descending count, entries of equal count
\* keeping their relative order.
SortByCount(counts) ==
  LET n == Len(counts)
      Precedes(j, i) ==
        \/ counts[j].count > counts[i].count
        \/ (counts[j].count = counts[i].count /\ j < i)
      Rank(i) == Cardinality({j \in 1..n : j # i /\ Precedes(j, i)}) + 1
  IN [k \in 1..n |-> counts[CHOOSE i \in 1..n : Rank(i) = k]]

\* Series.value_counts(): one (label, count) entry per distinct non-missing
\* value, most frequent first, equal counts in order of first appearance.
value_counts(s) ==
  LET NotNa(v) == ~IsNa(v)
      present == SelectSeq(s, NotNa)
      labels == Unique(present)
  IN SortByCount([i \in 1..Len(labels) |->
                    [label |-> labels[i],
                     count |-> Occurrences(present, labels[i])]])

CharCode(c) ==
  CASE c \in Digits -> 48 + DigitVal(c)
    [] c = "+" -> 43
    [] c = "-" -> 45
    [] c = "A" -> 65
    [] c = "B" -> 66
    [] c = "C" -> 67
    [] c = "x" -> 120

\* Python's < on two strings.
RECURSIVE StrLess(_, _)
StrLess(a, b) ==
  IF Len(b) = 0 THEN FALSE
  ELSE IF Len(a) = 0 THEN TRUE
  ELSE IF CharCode(a[1]) # CharCode(b[1]) THEN CharCode(a[1]) < CharCode(b[1])
  ELSE StrLess(Tail(a), Tail(b))

LabelLess(a, b) ==
  IF a.t = "num" /\ b.t = "num" THEN a.n < b.n
  ELSE IF a.t = "str" /\ b.t = "str" THEN StrLess(a.s, b.s)
  ELSE FALSE

\* counts.sort_index(): ascending by label; labels of different types cannot
\* be ordered and raise TypeError.  The sort compares each label with the
\* ones before it, so the first comparison that fails is of the first label
\* whose type differs from the first label's, against a label of that type.
sort_index(counts) ==
  LET n == Len(counts)
      types == {counts[i].label.t : i \in 1..n}
      Precedes(j, i) == LabelLess(counts[j].label, counts[i].label)
      Rank(i) == Cardinality({j \in 1..n : j # i /\ Precedes(j, i)}) + 1
      odd == CHOOSE i \in 1..n :
               /\ counts[i].label.t # counts[1].label.t
               /\ \A j \in 1..(i - 1) : counts[j].label.t = counts[1].label.t
  IN IF Cardinality(types) > 1
       THEN Raise("'<' not supported between instances of '"
                  \o PyType(counts[odd].label) \o "' and '"
                  \o PyType(counts[1].label) \o "'")
       ELSE Ok([k \in 1..n |-> counts[CHOOSE i \in 1..n : Rank(i) = k]])

\* df['year'].value_counts().sort_index()
release_freq(df) ==
  IF "year" \notin df.cols THEN Raise("'year'")
  ELSE LET years == Column(df, "year")
       IN IF \E i \in 1..Len(years) : years[i].t \in {"list", "map"}
            THEN Raise("unhashable type: '" \o
                       PyType(years[CHOOSE i \in 1..Len(years) :
                                      /\ years[i].t \in {"list", "map"}
                                      /\ \A j \in 1..(i - 1) :
                                           years[j].t \notin {"list", "map"}])
                       \o "'")
            ELSE sort_index(value_counts(years))

(***************************************************************************)
(* The performance tier of one normalized position.                        *)
(***************************************************************************)
\* Variant: exclusive upper bounds (< in place of <=).
get_performance_tier_exclusive(position) ==
  IF IsNa(position) THEN "No Chart"
  ELSE IF position.n < 5 THEN "Top 5"
  ELSE IF position.n < 10 THEN "Top 10"
  ELSE IF position.n < 50 THEN "Top 50"
  ELSE "No Chart"

get_performance_tier(position) ==
  IF IsNa(position) THEN "No Chart"
  ELSE IF position.n <= 5 THEN "Top 5"
  ELSE IF position.n <= 10 THEN "Top 10"
  ELSE IF position.n <= 50 THEN "Top 50"
  ELSE "No Chart"

\* df['performance_tier'].value_counts(): the labels are plain strings.
tier_counts(df) ==
  LET pos == Column(df, "US_peak_chart_post")
  IN value_counts([i \in 1..Len(pos) |->
                     [t |-> "tier", name |-> get_performance_tier(pos[i])]])

(***************************************************************************)
(* Figures.  go.Figure() has no trace and no title; a built figure has one *)
(* trace and its title.                                                    *)
(***************************************************************************)
Figure == [data |-> <<>>, title |-> ""]

\* values.reshape(-1, 1): one row per value, one column.
Reshape(values) == [i \in 1..Len(values) |-> <<values[i]>>]

line_fig(charting) ==
  [data |-> <<[type |-> "scatter",
               x |-> Column(charting, "album"),
               y |-> Column(charting, "US_peak_chart_post"),
               mode |-> "lines+markers"]>>,
   title |-> "Chart Performance Over Time"]

bar_fig(freq) ==
  [data |-> <<[type |-> "bar",
               x |-> [i \in 1..Len(freq) |-> freq[i].label],
               y |-> [i \in 1..Len(freq) |-> freq[i].count]]>>,
   title |-> "Album Release Frequency"]

scatter_fig(charting) ==
  [data |-> <<[type |-> "scatter",
               x |-> Column(charting, "year"),
               y |-> Column(charting, "US_peak_chart_post"),
               text |-> Column(charting, "album"),
               mode |-> "markers"]>>,
   title |-> "Year vs Chart Position"]

heatmap_fig(charting) ==
  [data |-> <<[type |-> "heatmap",
               z |-> Reshape(Column(charting, "US_peak_chart_post")),
               x |-> Column(charting, "year"),
               y |-> <<"Chart Position">>]>>,
   title |-> "Year vs Chart Performance"]

treemap_fig(counts) ==
  [data |-> <<[type |-> "treemap",
               labels |-> [i \in 1..Len(counts) |-> counts[i].label.name],
               parents |-> [i \in 1..Len(counts) |-> ""],
               values |-> [i \in 1..Len(counts) |-> counts[i].count]]>>,
   title |-> "Album Performance Distribution"]

Outputs(line, bar, scatter, heatmap, treemap, message) ==
  [line_chart |-> line, bar_chart |-> bar, scatter_chart |-> scatter,
   heatmap_chart |-> heatmap, treemap_chart |-> treemap,
   error_message |-> message]

(***************************************************************************)
(* The upload.  dcc.Upload delivers the file as the text                   *)
(* "<meta>,<base64 body>".  The text is a sequence of tokens: a comma, the *)
(* meta prefix, or a run of base64 characters, which carries what it       *)
(* decodes to (or that its padding is wrong); the bytes carry the text     *)
(* they are in UTF-8 (or that they are no UTF-8); the text carries the     *)
(* JSON document it spells (or that it is no JSON).                        *)
(***************************************************************************)
Comma == [tok |-> ","]

Meta == [tok |-> "data:application/json;base64"]

Base64(bytes) == [tok |-> "b64", padded |-> TRUE, bytes |-> bytes]

BadBase64 == [tok |-> "b64", padded |-> FALSE]

Utf8(text) == [utf8 |-> TRUE, text |-> text]

BadUtf8 == [utf8 |-> FALSE]

Json(doc) == [json |-> TRUE, doc |-> doc]

BadJson == [json |-> FALSE]

Text(toks) == [t |-> "text", toks |-> toks]

\* str.split(','): the runs of tokens between the commas.
RECURSIVE Split(_)
Split(toks) ==
  IF \A i \in 1..Len(toks) : toks[i].tok # ","
    THEN <<toks>>
    ELSE LET i == CHOOSE k \in 1..Len(toks) :
                    /\ toks[k].tok = ","
                    /\ \A j \in 1..(k - 1) : toks[j].tok # ","
         IN <<SubSeq(toks, 1, i - 1)>> \o Split(SubSeq(toks, i + 1, Len(toks)))

\* base64.b64decode: the empty string decodes to no bytes (the empty text,
\* which is no JSON); the meta prefix has 26 base64 characters and no padding.
b64decode(part) ==
  CASE Len(part) = 0 -> Ok(Utf8(BadJson))
    [] Len(part) = 1 /\ part[1].tok = "b64" /\ part[1].padded -> Ok(part[1].bytes)
    [] Len(part) = 1 /\ part[1].tok = "b64" /\ ~part[1].padded ->
         Raise("Incorrect padding")
    [] Len(part) = 1 /\ part[1].tok = Meta.tok -> Raise("Incorrect padding")

decode(bytes) ==
  IF bytes.utf8 THEN Ok(bytes.text)
  ELSE Raise("'utf-8' codec can't decode byte 0xff in position 0: invalid start byte")

json_loads(text) ==
  IF text.json THEN Ok(text.doc)
  ELSE Raise("Expecting value: line 1 column 1 (char 0)")

\* not contents: None and the empty string
Falsy(c) == c.t = "null" \/ (c.t = "text" /\ Len(c.toks) = 0)

(***************************************************************************)
(* update_dashboard                                                        *)
(***************************************************************************)
\* Variant: the charting rows sorted by position (best rank first).
charting_df_sorted(df) ==
  LET Charted(row) == ~IsNa(row["US_peak_chart_post"])
      rows == SelectSeq(df.rows, Charted)
      n == Len(rows)
      Precedes(j, i) ==
        \/ rows[j]["US_peak_chart_post"].n < rows[i]["US_peak_chart_post"].n
        \/ (rows[j]["US_peak_chart_post"].n = rows[i]["US_peak_chart_post"].n /\ j < i)
      Rank(i) == Cardinality({j \in 1..n : j # i /\ Precedes(j, i)}) + 1
  IN Frame(df.cols, [k \in 1..n |-> rows[CHOOSE i \in 1..n : Rank(i) = k]])

\* Variant: a position beyond 50 counts as not charting.
charting_df_ranked(df) ==
  LET Charted(row) ==
        /\ ~IsNa(row["US_peak_chart_post"])
        /\ row["US_peak_chart_post"].n <= 50
  IN Frame(df.cols, SelectSeq(df.rows, Charted))

\* df[df['US_peak_chart_post'].notna()]
charting_df(df) ==
  LET Charted(row) == ~IsNa(row["US_peak_chart_post"])
  IN Frame(df.cols, SelectSeq(df.rows, Charted))

\* The figures, in the order the callback builds them; the first exception
\* ends the run.
BuildFigures(df) ==
  LET charting == charting_df(df)
      freq == release_freq(df)
  IN IF "album" \notin df.cols THEN Raise("'album'")
     ELSE IF ~freq.ok THEN freq
     ELSE Ok(Outputs(line_fig(charting), bar_fig(freq.v),
                     scatter_fig(charting), heatmap_fig(charting),
                     treemap_fig(tier_counts(df)), ""))

\* Decode and parse JSON: split off the envelope, decode the body, parse it.
LoadJson(c) ==
  LET parts == Split(c.toks)
      raw == b64decode(parts[2])
      decoded == decode(raw.v)
  IN IF Len(parts) < 2
       THEN Raise("not enough values to unpack (expected 2, got 1)")
     ELSE IF Len(parts) > 2 THEN Raise("too many values to unpack (expected 2)")
     ELSE IF ~raw.ok THEN raw
     ELSE IF ~decoded.ok THEN decoded
     ELSE json_loads(decoded.v)

\* The body of the try block.
TryBody(c) ==
  LET album_data == LoadJson(c)
      processed == process_album_data(album_data.v)
  IN IF ~album_data.ok THEN album_data
     ELSE IF ~processed.ok THEN processed
     ELSE BuildFigures(processed.v)

\* Variant: the failure result without its message.
FailureSilent(message) == Outputs(Figure, Figure, Figure, Figure, Figure, "")

Failure(message) == Outputs(Figure, Figure, Figure, Figure, Figure, message)

update_dashboard(c) ==
  IF Falsy(c) THEN Failure("Please upload a JSON file")
  ELSE LET done == TryBody(c)
       IN IF done.ok THEN done.v
          ELSE Failure("Error processing file: " \o done.err)

(***************************************************************************)
(* The uploads the model draws from                                        *)
(***************************************************************************)
AlbumRecord(album, year, position) ==
  Obj(("album" :> album) @@ ("year" :> year) @@ ("US_peak_chart_post" :> position))

Positions ==
  {Str(<<"-">>), Str(<<"3">>), Num(5), Num(10), Num(50), Num(51), None}

Years == {Num(2000), Num(2001)}

Scenario ==
  <<AlbumRecord(Str(<<"A">>), Num(2000), Str(<<"3">>)),
    AlbumRecord(Str(<<"B">>), Num(2000), Str(<<"-">>)),
    AlbumRecord(Str(<<"C">>), Num(2001), Str(<<"7">>))>>

\* Records with all three fields, an integer year and a scalar position.
WellFormed ==
  {AlbumRecord(Str(<<"A">>), Num(2000), p) : p \in Positions}
    \cup {Scenario[2], Scenario[3]}

\* Records with an odd position, an odd year or a field missing.
Irregular ==
  { AlbumRecord(Str(<<"B">>), Num(2000), Str(<<"1", "2">>)),
    AlbumRecord(Str(<<"B">>), Num(2001), Str(<<"x">>)),
    AlbumRecord(Str(<<"B">>), Num(2001), Str(<<"-", "5">>)),
    AlbumRecord(Str(<<"B">>), Str(<<"1", "9", "9", "9">>), Num(7)),
    AlbumRecord(Str(<<"B">>), Arr(<<>>), Num(7)),
    AlbumRecord(Str(<<"B">>), None, Num(7)),
    Obj(("album" :> Str(<<"B">>)) @@ ("year" :> Num(2000))),
    Obj(("album" :> Str(<<"B">>)) @@ ("US_peak_chart_post" :> Num(7))),
    Obj(("year" :> Num(2001)) @@ ("US_peak_chart_post" :> Num(7))) }

ListsOf(pool, n) == UNION {[1..k -> pool] : k \in 0..n}

\* JSON arrays of objects
RecordDocs ==
  {Arr(xs) : xs \in ListsOf(WellFormed, MaxLen)
                      \cup ListsOf(WellFormed \cup Irregular, MaxMixedLen)}

Lists(values) == {Arr(xs) : xs \in ListsOf(values, MaxColLen)}

\* JSON objects of arrays (one array per field)
ColumnDocs ==
  {Obj(("album" :> a) @@ ("year" :> y) @@ ("US_peak_chart_post" :> p)) :
     a \in Lists({Str(<<"A">>)}),
     y \in Lists(Years),
     p \in Lists({Str(<<"3">>), Str(<<"-">>)})}

\* JSON documents that are neither: scalars, one object, arrays of scalars
OtherDocs ==
  { None, Num(5), Str(<<"x">>), Obj(<<>>), Scenario[1],
    Arr(<<Num(1), Num(2)>>), Arr(<<Str(<<"x">>)>>),
    Arr(<<Scenario[1], Num(1)>>), Arr(<<Num(1), Scenario[1]>>),
    Arr(<<Scenario[1], None>>) }

Docs == RecordDocs \cup ColumnDocs \cup OtherDocs

Bodies ==
  {BadBase64, Base64(BadUtf8), Base64(Utf8(BadJson))}
    \cup {Base64(Utf8(Json(d))) : d \in Docs}

Payloads ==
  {Text(<<Meta, Comma, b>>) : b \in Bodies}
    \cup { Text(<<>>), Text(<<Meta>>), Text(<<Meta, Comma>>),
           Text(<<Base64(Utf8(Json(Arr(Scenario))))>>),
           Text(<<Meta, Comma, Meta>>),
           Text(<<Meta, Comma, Base64(Utf8(Json(Arr(Scenario)))), Comma>>),
           Text(<<Meta, Comma, Meta, Comma, Base64(Utf8(Json(Arr(Scenario))))>>) }

(***************************************************************************)
(* The page                                                                *)
(***************************************************************************)
\* The layout: no upload, five graphs without a figure, no error text.  The
\* user holds some file.
Init ==
  /\ file \in Payloads
  /\ contents = None
  /\ result = Outputs(Figure, Figure, Figure, Figure, Figure, "")
  /\ called = FALSE

\* Dash fires the callback once when the page loads, with no upload.
PageLoad ==
  /\ ~called
  /\ called' = TRUE
  /\ result' = update_dashboard(contents)
  /\ UNCHANGED <<file, contents>>

\* The user drops the file on the upload component: the callback runs on its
\* contents.
Upload ==
  /\ called
  /\ contents' = file
  /\ result' = update_dashboard(file)
  /\ UNCHANGED <<file, called>>

Next == PageLoad \/ Upload

Spec == Init /\ [][Next]_vars

(***************************************************************************)
(* What the properties speak of                                            *)
(***************************************************************************)
OutputNames ==
  {"line_chart", "bar_chart", "scatter_chart", "heatmap_chart",
   "treemap_chart", "error_message"}

ViewsOf(r) ==
  <<r.line_chart, r.bar_chart, r.scatter_chart, r.heatmap_chart, r.treemap_chart>>

\* The stage that ended the last run of the callback.
Stage ==
  IF ~called THEN "idle"
  ELSE IF Falsy(contents) THEN "no upload"
  ELSE IF ~LoadJson(contents).ok THEN "ingest"
  ELSE IF ~process_album_data(LoadJson(contents).v).ok THEN "normalize"
  ELSE IF ~BuildFigures(process_album_data(LoadJson(contents).v).v).ok THEN "derive"
  ELSE "success"

\* The result has the failure shape: five placeholder views and a message.
FailureShape ==
  /\ result.error_message # ""
  /\ \A i \in 1..5 : ViewsOf(result)[i] = Figure

\* The callback ran on an upload whose text parsed as JSON.
Decoded == called /\ ~Falsy(contents) /\ LoadJson(contents).ok

\* The parsed document.
Doc == LoadJson(contents).v

IsRecordSequence(d) ==
  d.t = "list" /\ \A i \in 1..Len(d.xs) : d.xs[i].t = "map"

\* The callback ran and reported no error.
Succeeded == called /\ result.error_message = ""

\* The table of a successful run, before normalization.
Rows == DataFrame(Doc).v.rows

\* Every row has an album name and an integer year.
WellFormedTable ==
  \A i \in 1..Len(Rows) : Rows[i]["album"].t = "str" /\ Rows[i]["year"].t = "num"

\* The position the coercion law gives row i.
Norm(i) == ToNumeric(Rows[i]["US_peak_chart_post"])

ChartingIdx == {i \in 1..Len(Rows) : ~IsNa(Norm(i))}

MissingIdx == {i \in 1..Len(Rows) : IsNa(Norm(i))}

Over50Idx == {i \in ChartingIdx : Norm(i).n > 50}

\* The j-th smallest member of a set of indices.
Nth(S, j) == CHOOSE i \in S : Cardinality({m \in S : m < i}) = j - 1

RECURSIVE SumSeq(_)
SumSeq(s) == IF Len(s) = 0 THEN 0 ELSE s[1] + SumSeq(Tail(s))

Tiers == {"Top 5", "Top 10", "Top 50", "No Chart"}

\* The tier brackets of the specification.
InTier(p, tier) ==
  CASE tier = "Top 5" -> ~IsNa(p) /\ p.n <= 5
    [] tier = "Top 10" -> ~IsNa(p) /\ 5 < p.n /\ p.n <= 10
    [] tier = "Top 50" -> ~IsNa(p) /\ 10 < p.n /\ p.n <= 50
    [] tier = "No Chart" -> IsNa(p) \/ p.n > 50

Members(tier) == {i \in 1..Len(Rows) : InTier(Norm(i), tier)}

LineTrace == result.line_chart.data[1]

BarTrace == result.bar_chart.data[1]

ScatterTrace == result.scatter_chart.data[1]

HeatmapTrace == result.heatmap_chart.data[1]

TreemapTrace == result.treemap_chart.data[1]

\* The count the tier view shows for a tier, 0 when the tier is not shown.
Shown(tier) ==
  SumSeq([k \in 1..Len(TreemapTrace.labels) |->
            IF TreemapTrace.labels[k] = tier THEN TreemapTrace.values[k] ELSE 0])

(***************************************************************************)
(* C1: once the callback has run, the result is one of two shapes: after a *)
(* failure at any stage (no upload, decode or parse, normalization, a      *)
(* derivation) five placeholder figures and a non-empty message; after a   *)
(* success five built figures and the empty message.  The result is always *)
(* the six outputs, never an exception.                                    *)
(***************************************************************************)
C1_ErrorChannel ==
  called =>
    /\ DOMAIN result = OutputNames
    /\ IF Stage = "success"
         THEN /\ result.error_message = ""
              /\ \A i \in 1..5 :
                   Len(ViewsOf(result)[i].data) = 1 /\ ViewsOf(result)[i].title # ""
         ELSE FailureShape

C1_Witness == Stage = "derive" /\ FailureShape

(***************************************************************************)
(* C2: when the upload decodes to the empty record collection [], the run  *)
(* succeeds: the error message is empty and the five views have no         *)
(* entries.                                                                *)
(***************************************************************************)
C2_EmptyCollectionSucceeds ==
  (Decoded /\ Doc.t = "list" /\ Len(Doc.xs) = 0) =>
    /\ result.error_message = ""
    /\ \A i \in 1..5 : Len(ViewsOf(result)[i].data) = 1
    /\ Len(LineTrace.x) = 0 /\ Len(BarTrace.x) = 0 /\ Len(ScatterTrace.x) = 0
    /\ Len(HeatmapTrace.x) = 0 /\ Len(TreemapTrace.labels) = 0

(***************************************************************************)
(* C3: normalization is total and never fails the run: for every non-empty *)
(* collection of records it yields one row per record, in order, whose     *)
(* position is missing when the record's value is "-", absent, null or     *)
(* non-numeric (also when no record carries the field) and the numeric     *)
(* parse of the value otherwise.                                           *)
(***************************************************************************)
C3_NormalizationTotal ==
  (Decoded /\ IsRecordSequence(Doc) /\ Len(Doc.xs) > 0) =>
    LET normal == process_album_data(Doc)
        Expected(rec) ==
          IF "US_peak_chart_post" \in DOMAIN rec.m
            THEN ToNumeric(rec.m["US_peak_chart_post"])
            ELSE NaN
    IN /\ normal.ok
       /\ Stage # "normalize"
       /\ Len(normal.v.rows) = Len(Doc.xs)
       /\ \A i \in 1..Len(Doc.xs) :
            normal.v.rows[i]["US_peak_chart_post"] = Expected(Doc.xs[i])

(***************************************************************************)
(* C4: after a successful run the tier view shows, for each of the four    *)
(* tiers, the number of rows in that tier's bracket (missing or > 50: No   *)
(* Chart; <= 5: Top 5; 6..10: Top 10; 11..50: Top 50), shows a tier        *)
(* exactly when it has a member, each tier once, and the counts sum to the *)
(* number of rows.                                                         *)
(***************************************************************************)
C4_TierPartition ==
  Succeeded =>
    /\ \A k \in 1..Len(TreemapTrace.labels) :
         /\ TreemapTrace.labels[k] \in Tiers
         /\ TreemapTrace.values[k] >= 1
         /\ \A m \in 1..Len(TreemapTrace.labels) :
              TreemapTrace.labels[m] = TreemapTrace.labels[k] => m = k
    /\ \A tier \in Tiers : Shown(tier) = Cardinality(Members(tier))
    /\ SumSeq(TreemapTrace.values) = Len(Rows)

C4_Witness ==
  /\ Succeeded
  /\ \E i, j, k \in 1..Len(Rows) :
       /\ Norm(i) = Num(5) /\ Norm(j) = Num(10) /\ Norm(k) = Num(50)
  /\ Shown("Top 5") = 1 /\ Shown("Top 10") = 1 /\ Shown("Top 50") = 1

(***************************************************************************)
(* C5: after a successful run the release-frequency view lists every year  *)
(* of the table once, in ascending order, and its counts sum to the number *)
(* of rows of the table.                                                   *)
(***************************************************************************)
C5_HistogramCount ==
  Succeeded =>
    /\ \A j \in 1..(Len(BarTrace.x) - 1) : LabelLess(BarTrace.x[j], BarTrace.x[j + 1])
    /\ \A i \in 1..Len(Rows) :
         \E j \in 1..Len(BarTrace.x) :
           /\ BarTrace.x[j] = Rows[i]["year"]
           /\ BarTrace.y[j]
                = Cardinality({m \in 1..Len(Rows) : Rows[m]["year"] = Rows[i]["year"]})
    /\ SumSeq(BarTrace.y) = Len(Rows)

(***************************************************************************)
(* C6: when a record of the parsed collection lacks year, the run fails:   *)
(* five placeholder views and a non-empty message.                         *)
(***************************************************************************)
C6_MissingYearFails ==
  (Decoded /\ IsRecordSequence(Doc)
     /\ \E i \in 1..Len(Doc.xs) : "year" \notin DOMAIN Doc.xs[i].m)
    => FailureShape

(***************************************************************************)
(* C7: an upload whose text is not valid JSON, or whose document is not a  *)
(* sequence of mappings, ends in the failure shape.                        *)
(***************************************************************************)
C7_RejectsOtherShapes ==
  (called /\ ~Falsy(contents)
     /\ (~LoadJson(contents).ok \/ ~IsRecordSequence(Doc)))
    => FailureShape

(***************************************************************************)
(* C8: after a successful run the line view and the scatter view hold      *)
(* exactly the rows with a non-missing position, one entry each, in table  *)
(* order, each entry carrying its own row's album, year and position.      *)
(***************************************************************************)
C8_TableOrder ==
  Succeeded =>
    LET k == Cardinality(ChartingIdx)
    IN /\ Len(LineTrace.x) = k /\ Len(LineTrace.y) = k
       /\ Len(ScatterTrace.x) = k /\ Len(ScatterTrace.y) = k
       /\ Len(ScatterTrace.text) = k
       /\ \A j \in 1..k :
            LET row == Rows[Nth(ChartingIdx, j)]
                position == Norm(Nth(ChartingIdx, j))
            IN /\ LineTrace.x[j] = row["album"]
               /\ LineTrace.y[j] = position
               /\ ScatterTrace.x[j] = row["year"]
               /\ ScatterTrace.y[j] = position
               /\ ScatterTrace.text[j] = row["album"]

\* Three rows, the middle one not charting, the charting ones in descending
\* order of rank and of year.
C8_Witness ==
  /\ Succeeded
  /\ Len(Rows) = 3 /\ ChartingIdx = {1, 3}
  /\ Len(LineTrace.y) = 2
  /\ LineTrace.y[1].n > LineTrace.y[2].n
  /\ ScatterTrace.x[1].t = "num" /\ ScatterTrace.x[2].t = "num"
  /\ ScatterTrace.x[1].n > ScatterTrace.x[2].n

(***************************************************************************)
(* C9: after a successful run on a table of well-formed records with a     *)
(* charting row, the heatmap is a single-row grid: its cell matrix has one *)
(* row, with one column per charting row in table order, labelled with     *)
(* that row's year and holding that row's position.                        *)
(***************************************************************************)
C9_SingleRowGrid ==
  (Succeeded /\ WellFormedTable /\ ChartingIdx # {}) =>
    LET k == Cardinality(ChartingIdx)
    IN /\ Len(HeatmapTrace.z) = 1
       /\ Len(HeatmapTrace.z[1]) = k
       /\ Len(HeatmapTrace.x) = k
       /\ \A j \in 1..k :
            /\ HeatmapTrace.x[j] = Rows[Nth(ChartingIdx, j)]["year"]
            /\ HeatmapTrace.z[1][j] = Norm(Nth(ChartingIdx, j))

(***************************************************************************)
(* C10: after a successful run a row with a position above 50 is in the    *)
(* line, scatter and heatmap views and is counted under No Chart: the No   *)
(* Chart count is the number of rows with a missing position plus the      *)
(* number with a position above 50, and the charting views have as many    *)
(* entries as there are rows with a non-missing position.                  *)
(***************************************************************************)
C10_NoChartOverlap ==
  Succeeded =>
    /\ Shown("No Chart") = Cardinality(MissingIdx) + Cardinality(Over50Idx)
    /\ Len(LineTrace.x) = Len(Rows) - Cardinality(MissingIdx)
    /\ Len(ScatterTrace.x) = Len(Rows) - Cardinality(MissingIdx)
    /\ Len(HeatmapTrace.x) = Len(Rows) - Cardinality(MissingIdx)
    /\ \A i \in Over50Idx :
         /\ \E j \in 1..Len(LineTrace.x) :
              LineTrace.x[j] = Rows[i]["album"] /\ LineTrace.y[j] = Norm(i)
         /\ \E j \in 1..Len(ScatterTrace.x) :
              ScatterTrace.x[j] = Rows[i]["year"] /\ ScatterTrace.y[j] = Norm(i)
         /\ \E j \in 1..Len(HeatmapTrace.x) : HeatmapTrace.x[j] = Rows[i]["year"]
         /\ \E r \in 1..Len(HeatmapTrace.z) :
              \E c \in 1..Len(HeatmapTrace.z[r]) : HeatmapTrace.z[r][c] = Norm(i)

C10_Witness ==
  /\ Succeeded
  /\ Over50Idx # {} /\ MissingIdx # {}
  /\ Shown("No Chart") = Cardinality(MissingIdx) + Cardinality(Over50Idx)
  /\ Len(LineTrace.x) > 0
====
